---- MODULE Spec2Model ----
(***************************************************************************)
(* The elevation-profile engine of src/app.js: the route (state.waypoints  *)
(* and the waypoint objects it refers to), the refresh counter             *)
(* state.profileToken, the tile cache, the profile canvas, and the         *)
(* suspended invocations of updateElevationProfile /                       *)
(* sampleElevationAlongRoute.                                              *)
(*                                                                         *)
(* Scheduling.  JavaScript runs one task at a time; an await on a value    *)
(* that is already available resumes in the same microtask checkpoint, so  *)
(* an invocation runs without interruption from the event that resumes it  *)
(* until it suspends on a network fetch (a cache miss) or returns.  One    *)
(* action of the model is one such task: an editing handler together with  *)
(* the refresh it starts, or the completion of one network fetch together  *)
(* with everything the resumed invocation does before it suspends again.   *)
(*                                                                         *)
(* Geometry.  Routes lie on one meridian.  A latitude is a whole number of *)
(* units of LatUnitMeters metres of arc, so haversineDistance is           *)
(* LatUnitMeters * |lat1 - lat2|.  Interpolated values are exact fractions *)
(* [n, d] (value n/d).  One tile covers TileSpan latitude units and has    *)
(* TILE_SIZE pixel rows; tile rows are numbered southwards from NorthLat.  *)
(* Altitudes are whole metres; an elevation is the fraction the decoder    *)
(* computes (value/10 - 10000).                                            *)
(*                                                                         *)
(* Requests.  The network requests in flight are kept in requests: a       *)
(* sampler that suspends on a cache miss has issued one, and the           *)
(* completion of that fetch removes it.                                    *)
(*                                                                         *)
(* Functions on their own.  interpolateCoordinate and decodeElevation are  *)
(* also exercised outside the engine, in SpecInterpolate and SpecDecode:   *)
(* probe holds the arguments and the results.  SpecInterpolate computes in *)
(* binary64, the arithmetic of an ECMAScript Number, on altitudes given in *)
(* tenths of a metre; the engine itself stays in exact fractions.          *)
(***************************************************************************)
EXTENDS Integers, Sequences, FiniteSets, TLC

\* ---- bounds of the model ------------------------------------------------
MaxRefresh == 3
MaxWaypoints == 3
MaxLat == 2
MaxAlt == 20
MaxFail == 2
MaxTenths == 9
MaxCalls == 2

\* ---- program constants ----------------------------------------------------
TILE_ZOOM == 14
SAMPLE_SPACING_METERS == 80
TILE_SIZE == 256
NO_DATA_LOW == 0
NO_DATA_HIGH == 256 * 256 * 256 - 1

\* ---- scale of the modelled geometry ---------------------------------------
LatUnitMeters == 100
TileSpan == 2
NorthLat == MaxLat
TileX == 0

Lats == 0 .. MaxLat
Altitudes == {0, MaxAlt}

VARIABLES
  objs,          \* the waypoint objects ever created: objs[r] is object r
  arrays,        \* the arrays ever created: arrays[a] is a sequence of object refs
  waypoints,     \* state.waypoints: the array the route currently is
  profileToken,  \* state.profileToken
  tileCache,     \* tileCache: key -> decoded buffer
  canvas,        \* what profileCanvas shows, and the invocation that drew it
  invs,          \* the invocations of updateElevationProfile, in order of start
  loaded,        \* the map's 'load' event has fired
  failures,      \* number of tile fetches that failed so far
  requests,      \* the network requests in flight, in order of issue
  probe          \* the call under test when a function is exercised on its own

vars == <<objs, arrays, waypoints, profileToken, tileCache, canvas, invs, loaded,
          failures, requests, probe>>

\* ---- optional values and fractions ----------------------------------------
Null == <<>>
Some(v) == <<v>>

Frac(n, d) == [n |-> n, d |-> d]
FLeq(a, b) == a.n * b.d <= b.n * a.d
FEq(a, b) == a.n * b.d = b.n * a.d
FInt(k) == Frac(k, 1)

Abs(x) == IF x < 0 THEN -x ELSE x
Max(a, b) == IF a >= b THEN a ELSE b
CeilDiv(a, b) == (a + b - 1) \div b

\* ---- geodesy ----------------------------------------------------------------
haversineDistance(lat1, lat2) == LatUnitMeters * Abs(lat2 - lat1)

\* start + (end - start) * t with t = step/steps
interpolateCoordinate(start, end, step, steps) ==
  Frac(start * steps + (end - start) * step, steps)

\* ---- Number arithmetic (IEEE 754 binary64) on small values -------------------
\* A Number that is a multiple of 2^-57 and of magnitude below 8 is the record
\* [neg, hi, lo] of value (-1)^neg * (hi * Limb + lo) * 2^-57, with lo < Limb.
\* Sums and differences of such values are exact on this grid and are then
\* rounded to 53 significant bits, to nearest, ties to even; no result is
\* subnormal or overflows.  Zero is [neg |-> FALSE, hi |-> 0, lo |-> 0].
Limb == 2^30
Significand == 53

RECURSIVE NumBits(_)
NumBits(n) == IF n = 0 THEN 0 ELSE 1 + NumBits(n \div 2)

BitLength(m) == IF m.hi > 0 THEN 30 + NumBits(m.hi) ELSE NumBits(m.lo)

\* the magnitude m, with sticky telling that the exact value lies above it,
\* rounded to Significand bits
RoundToSignificand(m, sticky) ==
  LET drop == BitLength(m) - Significand
      unit == 2^drop
      rem == m.lo % unit
      half == unit \div 2
      odd == (m.lo \div unit) % 2 = 1
      up == rem > half \/ (rem = half /\ (sticky \/ odd))
      lo == IF up THEN m.lo - rem + unit ELSE m.lo - rem
  IN IF drop <= 0 THEN m
     ELSE IF lo = Limb THEN [hi |-> m.hi + 1, lo |-> 0]
     ELSE [hi |-> m.hi, lo |-> lo]

Number(neg, m) == [neg |-> neg /\ (m.hi # 0 \/ m.lo # 0), hi |-> m.hi, lo |-> m.lo]

\* the Number a decimal literal with one fractional digit denotes: tenths / 10
\* correctly rounded (JSON.parse of a plan, Number(value) of an input field)
NumberOfTenths(tenths) ==
  LET hi0 == tenths * 2^27
      t1 == (hi0 % 10) * 2^15
      t2 == (t1 % 10) * 2^15
      q == [hi |-> hi0 \div 10, lo |-> (t1 \div 10) * 2^15 + t2 \div 10]
  IN Number(FALSE, RoundToSignificand(q, t2 % 10 # 0))

MagLess(x, y) == x.hi < y.hi \/ (x.hi = y.hi /\ x.lo < y.lo)

MagAdd(x, y) ==
  IF x.lo + y.lo >= Limb
  THEN [hi |-> x.hi + y.hi + 1, lo |-> x.lo + y.lo - Limb]
  ELSE [hi |-> x.hi + y.hi, lo |-> x.lo + y.lo]

\* x - y for magnitudes with y <= x
MagSub(x, y) ==
  IF x.lo >= y.lo
  THEN [hi |-> x.hi - y.hi, lo |-> x.lo - y.lo]
  ELSE [hi |-> x.hi - y.hi - 1, lo |-> x.lo + Limb - y.lo]

\* the operators + and - of Numbers
NumberPlus(x, y) ==
  IF x.neg = y.neg THEN Number(x.neg, RoundToSignificand(MagAdd(x, y), FALSE))
  ELSE IF MagLess(x, y) THEN Number(y.neg, RoundToSignificand(MagSub(y, x), FALSE))
  ELSE Number(x.neg, RoundToSignificand(MagSub(x, y), FALSE))

NumberMinus(x, y) == NumberPlus(x, Number(~y.neg, y))

\* x * t for t the Number 0 or 1 (step / steps at step = 0 and at step = steps)
NumberTimesUnit(x, t) == IF t = 1 THEN x ELSE Number(FALSE, [hi |-> 0, lo |-> 0])

\* x <= y
NumberLeq(x, y) ==
  IF x.neg /\ ~y.neg THEN TRUE
  ELSE IF ~x.neg /\ y.neg THEN FALSE
  ELSE IF x.neg THEN ~MagLess(x, y)
  ELSE ~MagLess(y, x)

\* interpolateCoordinate (lines 435-437) in Number arithmetic, for t in {0, 1}
interpolateCoordinateNumber(start, end, t) ==
  NumberPlus(start, NumberTimesUnit(NumberMinus(end, start), t))

\* ---- the tile server and the decoder ---------------------------------------
\* The RGB triple of pixel row p of the server's image for tile row y.
ServerPixel(y, p) ==
  IF y = 0 THEN <<1, 138, 136>>
  ELSE IF p < TILE_SIZE \div 2 THEN <<0, 0, 0>>
  ELSE <<1, 134, 60>>

\* decodeElevation testing only the low sentinel
decodeElevationLowSentinelOnly(r, g, b) ==
  LET value == r * 256 * 256 + g * 256 + b
  IN IF value = NO_DATA_LOW
     THEN Null
     ELSE Some(Frac(value - 100000, 10))

\* decodeElevation (lines 545-551); value / 10 - 10000 as a fraction
decodeElevation(r, g, b) ==
  LET value == r * 256 * 256 + g * 256 + b
  IN IF value = NO_DATA_LOW \/ value = NO_DATA_HIGH
     THEN Null
     ELSE Some(Frac(value - 100000, 10))

\* ---- tile projection (getElevationFromTile, lines 498-505) -----------------
\* y = (NorthLat - lat) / TileSpan in tile units, as the fraction yn / yd
TileY(lat) ==
  LET yn == NorthLat * lat.d - lat.n
      yd == lat.d * TileSpan
  IN yn \div yd

TilePixel(lat) ==
  LET yn == NorthLat * lat.d - lat.n
      yd == lat.d * TileSpan
  IN ((yn % yd) * TILE_SIZE) \div yd

TileKey(z, x, y) == <<z, x, y>>

\* The decoded buffer of the server's image for a key (lines 533-540), and the
\* RGB triple the sampler reads from a buffer (lines 510-513).
DecodeImage(key) == [src |-> key[3]]
ReadPixel(tileData, p) == ServerPixel(tileData.src, p)

\* getElevationFromTile once fetchElevationTile has returned tileData
\* (lines 508-515): the decoded elevation, or Null
ElevationOf(tileData, p) ==
  LET rgb == ReadPixel(tileData, p)
  IN decodeElevation(rgb[1], rgb[2], rgb[3])

\* ---- the sampler -----------------------------------------------------------
\* The frame of one updateElevationProfile invocation and of the
\* sampleElevationAlongRoute call it awaits.  pc: "outer" at the head of the
\* segment loop, "inner" at the head of the step loop, "await" suspended on the
\* network fetch of key, "done" returned.  i and step count from 0 as in the
\* code.  lookups records, per call of getElevationFromTile, the key, whether it
\* went to the network, whether it logged a warning (line 517), and whether
\* its sample was kept (line 481).
NewFrame(token, w) ==
  [token |-> token, waypoints |-> w, pc |-> "outer",
   i |-> 0, step |-> 0, start |-> 0, end |-> 0,
   segmentDistance |-> 0, steps |-> 1, cumulativeDistance |-> 0,
   lat |-> FInt(0), key |-> TileKey(TILE_ZOOM, TileX, 0), pixel |-> 0,
   samples |-> <<>>, lookups |-> <<>>]

\* lines 464-467: the head of a segment
SegmentStart(f, o, a) ==
  LET start == a[f.waypoints][f.i + 1]
      end == a[f.waypoints][f.i + 2]
      segmentDistance == haversineDistance(o[start].latitude, o[end].latitude)
  IN [f EXCEPT !.start = start, !.end = end,
               !.segmentDistance = segmentDistance,
               !.steps = Max(1, CeilDiv(segmentDistance, SAMPLE_SPACING_METERS)),
               !.step = 0, !.pc = "inner"]

\* lines 470-473 and 498-505: the point of this step and the tile it lies in
StepPoint(f, o) ==
  LET lat == interpolateCoordinate(o[f.start].latitude, o[f.end].latitude, f.step, f.steps)
  IN [f EXCEPT !.lat = lat,
               !.key = TileKey(TILE_ZOOM, TileX, TileY(lat)),
               !.pixel = TilePixel(lat)]

\* SkipStep without the test of line 477: no step is dropped
SkipStepNever(i, step) == FALSE

\* lines 477-479: the first step of every segment but the first is dropped
SkipStep(i, step) == step = 0 /\ i # 0

\* AfterLookup where a lookup that failed pushes no sample
AfterLookupDropFailed(f, o, groundElevation, net, failed) ==
  LET plannedAltitude == interpolateCoordinate(o[f.start].altitude, o[f.end].altitude, f.step, f.steps)
      distance == Frac(f.cumulativeDistance * f.steps + f.segmentDistance * f.step, f.steps)
      sample == [distance |-> distance, lat |-> f.lat,
                 groundElevation |-> groundElevation,
                 plannedAltitude |-> plannedAltitude]
  IN [f EXCEPT !.samples = IF SkipStep(f.i, f.step) \/ failed THEN @ ELSE Append(@, sample),
               !.lookups = Append(@, [key |-> f.key, net |-> net, failed |-> failed,
                                      kept |-> ~SkipStep(f.i, f.step)]),
               !.step = @ + 1, !.pc = "inner"]

\* AfterLookup where distance leaves out the cumulative distance of line 475
AfterLookupSegmentDistance(f, o, groundElevation, net, failed) ==
  LET plannedAltitude == interpolateCoordinate(o[f.start].altitude, o[f.end].altitude, f.step, f.steps)
      distance == Frac(f.segmentDistance * f.step, f.steps)
      sample == [distance |-> distance, lat |-> f.lat,
                 groundElevation |-> groundElevation,
                 plannedAltitude |-> plannedAltitude]
  IN [f EXCEPT !.samples = IF SkipStep(f.i, f.step) THEN @ ELSE Append(@, sample),
               !.lookups = Append(@, [key |-> f.key, net |-> net, failed |-> failed,
                                      kept |-> ~SkipStep(f.i, f.step)]),
               !.step = @ + 1, !.pc = "inner"]

\* lines 474-488: the rest of a step once the lookup has returned groundElevation
AfterLookup(f, o, groundElevation, net, failed) ==
  LET plannedAltitude == interpolateCoordinate(o[f.start].altitude, o[f.end].altitude, f.step, f.steps)
      distance == Frac(f.cumulativeDistance * f.steps + f.segmentDistance * f.step, f.steps)
      sample == [distance |-> distance, lat |-> f.lat,
                 groundElevation |-> groundElevation,
                 plannedAltitude |-> plannedAltitude]
  IN [f EXCEPT !.samples = IF SkipStep(f.i, f.step) THEN @ ELSE Append(@, sample),
               !.lookups = Append(@, [key |-> f.key, net |-> net, failed |-> failed,
                                      kept |-> ~SkipStep(f.i, f.step)]),
               !.step = @ + 1, !.pc = "inner"]

\* fetchElevationTile without the lookup of line 524
CacheHitNever(c, key) == FALSE

\* line 524: fetchElevationTile answers from the cache
CacheHit(c, key) == key \in DOMAIN c

\* sampleElevationAlongRoute from the frame's position up to its next
\* suspension on the network or its return (lines 463-493), reading the
\* waypoint objects o, the arrays a and the cache c
RECURSIVE Run(_, _, _, _)
Run(frame, o, a, c) ==
  LET Continue(f) ==
        IF f.pc = "outer" THEN
          IF f.i < Len(a[f.waypoints]) - 1
          THEN Run(SegmentStart(f, o, a), o, a, c)
          ELSE [f EXCEPT !.pc = "done"]
        ELSE IF f.pc = "inner" THEN
          IF f.step <= f.steps THEN
            LET g == StepPoint(f, o)
            IN IF CacheHit(c, g.key)
               THEN Run(AfterLookup(g, o, ElevationOf(c[g.key], g.pixel), FALSE, FALSE), o, a, c)
               ELSE [g EXCEPT !.pc = "await"]
          ELSE Run([f EXCEPT !.cumulativeDistance = @ + f.segmentDistance,
                             !.i = @ + 1, !.pc = "outer"], o, a, c)
        ELSE f
  IN \* the frame is evaluated once, then the sampler continues from it
     CHOOSE result \in {Continue(f) : f \in {frame}} : TRUE

\* ---- requests in flight -------------------------------------------------------
Request(f, key) == [owner |-> f.token, key |-> key]

\* IssuedRequests where the sampler also requests the tile of the segment's end
\* ahead of reaching it
IssuedRequestsPrefetching(f, o) ==
  IF f.pc = "await"
  THEN <<Request(f, f.key),
         Request(f, TileKey(TILE_ZOOM, TileX, TileY(FInt(o[f.end].latitude))))>>
  ELSE <<>>

\* line 529: the requests a frame has issued by the time the sampler suspends or
\* returns: the one fetch it awaits, if it is suspended
IssuedRequests(f, o) ==
  IF f.pc = "await" THEN <<Request(f, f.key)>> ELSE <<>>

\* the requests in flight once the first one equal to r has completed
RECURSIVE Completed(_, _)
Completed(reqs, r) ==
  IF reqs = <<>> THEN <<>>
  ELSE IF Head(reqs) = r THEN Tail(reqs)
  ELSE <<Head(reqs)>> \o Completed(Tail(reqs), r)

\* ---- the canvas --------------------------------------------------------------
\* drawProfilePlaceholder (lines 553-562)
drawProfilePlaceholder(message, token) ==
  [kind |-> message, token |-> token, samples |-> <<>>, polygon |-> FALSE,
   groundLine |-> <<>>, plannedLine |-> <<>>]

ValidSamples(samples) == SelectSeq(samples, LAMBDA s : s.groundElevation # Null)

FMinus(a, b) == Frac(a.n * b.d - b.n * a.d, a.d * b.d)
FPlus(a, b) == Frac(a.n * b.d + b.n * a.d, a.d * b.d)

\* Math.min(...values, least) and Math.max(...values, greatest)
FMin(values, least) ==
  LET all == {values[n] : n \in 1 .. Len(values)} \cup {least}
  IN CHOOSE v \in all : \A w \in all : FLeq(v, w)

FMax(values, greatest) ==
  LET all == {values[n] : n \in 1 .. Len(values)} \cup {greatest}
  IN CHOOSE v \in all : \A w \in all : FLeq(w, v)

\* lines 575-576: the ground elevations that are not null, and the planned altitudes
Elevations(samples) ==
  [n \in 1 .. Len(ValidSamples(samples)) |-> ValidSamples(samples)[n].groundElevation[1]]
Planned(samples) == [n \in 1 .. Len(samples) |-> samples[n].plannedAltitude]

\* TotalDistance without the default of line 574
TotalDistanceNoDefault(samples) ==
  IF samples = <<>> THEN FInt(0) ELSE samples[Len(samples)].distance

\* line 574: distances[distances.length - 1] || 1
TotalDistance(samples) ==
  IF samples = <<>> \/ samples[Len(samples)].distance.n = 0
  THEN FInt(1)
  ELSE samples[Len(samples)].distance

\* lines 577-578
MinElevation(samples) == FMin(Elevations(samples), FInt(0))
MaxElevation(samples) ==
  FMax(Elevations(samples) \o Planned(samples), FPlus(MinElevation(samples), FInt(10)))

\* line 582: the divisor of yScale
YDivisor(samples) ==
  FMax(<<FMinus(MaxElevation(samples), MinElevation(samples))>>, FInt(1))

\* the points of a path drawn through samples (lines 586-595, 610-615)
GroundPoint(s) == [distance |-> s.distance, value |-> s.groundElevation]
PlannedPoint(s) == [distance |-> s.distance, value |-> s.plannedAltitude]

\* drawElevationProfile (lines 564-652): the chart of the samples; the ground
\* polygon is drawn through the valid samples when there are at least 2 of
\* them, the planned-altitude line through every sample
drawElevationProfile(samples, token) ==
  LET validSamples == ValidSamples(samples)
  IN [kind |-> "chart", token |-> token, samples |-> samples,
      polygon |-> Len(validSamples) >= 2,
      groundLine |-> IF Len(validSamples) >= 2
                     THEN [n \in 1 .. Len(validSamples) |-> GroundPoint(validSamples[n])]
                     ELSE <<>>,
      plannedLine |-> [n \in 1 .. Len(samples) |-> PlannedPoint(samples[n])]]

\* AfterSampling without the comparison of line 450
AfterSamplingUnchecked(f, live, cv) == drawElevationProfile(f.samples, f.token)

\* AfterSampling where one unavailable elevation fails the whole refresh
AfterSamplingFailOnAnyNull(f, live, cv) ==
  IF f.token # live THEN cv
  ELSE IF Len(ValidSamples(f.samples)) < Len(f.samples)
  THEN drawProfilePlaceholder("failed", f.token)
  ELSE drawElevationProfile(f.samples, f.token)

\* AfterSampling where a superseded invocation still draws over a 'computing'
\* placeholder
AfterSamplingFillsPlaceholder(f, live, cv) ==
  IF f.token # live /\ cv.kind # "computing" THEN cv
  ELSE drawElevationProfile(f.samples, f.token)

\* AfterSampling without the draw of line 451
AfterSamplingDrawsNothing(f, live, cv) == cv

\* lines 450-451: what the canvas shows once the invocation's sampling has
\* returned, cv being what it showed before
AfterSampling(f, live, cv) ==
  IF f.token # live THEN cv ELSE drawElevationProfile(f.samples, f.token)

\* the token of a post-increment, state.profileToken++
CapturedTokenPostIncrement(live) == live

\* line 440: const token = ++state.profileToken
CapturedToken(live) == live + 1
IncrementedToken(live) == live + 1

\* the test of line 443 as length < 1
InsufficientRouteOffByOne(n) == n < 1

\* line 443: the route is too short for a profile
InsufficientRoute(n) == n < 2

\* updateElevationProfile (lines 439-457) called with the route being array w
\* of a over the objects o, and the cache c
UpdateElevationProfile(o, a, w, c) ==
  LET token == CapturedToken(profileToken)
      live == IncrementedToken(profileToken)
      computing == drawProfilePlaceholder("computing", token)
  IN /\ profileToken' = live
     /\ IF InsufficientRoute(Len(a[w]))
        THEN /\ canvas' = drawProfilePlaceholder("insufficient", token)
             /\ invs' = Append(invs, [NewFrame(token, w) EXCEPT !.pc = "done"])
             /\ requests' = requests
        ELSE LET f == Run(NewFrame(token, w), o, a, c)
             IN /\ invs' = Append(invs, f)
                /\ requests' = requests \o IssuedRequests(f, o)
                /\ canvas' = IF f.pc = "done"
                             THEN AfterSampling(f, live, computing)
                             ELSE computing

\* updateMapVisualization (lines 303-310): the markers and the path layer are
\* redrawn from the route and the profile is refreshed
updateMapVisualization(o, a, w) ==
  /\ profileToken < MaxRefresh
  /\ UpdateElevationProfile(o, a, w, tileCache)
  /\ objs' = o
  /\ arrays' = a
  /\ waypoints' = w
  /\ UNCHANGED <<tileCache, failures, probe>>

Route == arrays[waypoints]

\* ---- the editing handlers --------------------------------------------------
\* the map's 'load' event (lines 86-91)
MapLoad ==
  /\ ~loaded
  /\ loaded' = TRUE
  /\ updateMapVisualization(objs, arrays, waypoints)

\* addWaypoint (lines 160-173): the new object is pushed onto the live array
addWaypoint(latitude, altitude) ==
  LET r == Len(objs) + 1
      waypoint == [id |-> r, latitude |-> latitude, altitude |-> altitude]
  IN /\ loaded
     /\ Len(Route) < MaxWaypoints
     /\ updateMapVisualization(Append(objs, waypoint),
                               [arrays EXCEPT ![waypoints] = Append(@, r)],
                               waypoints)
     /\ UNCHANGED loaded

\* Array.prototype.find over the route: the first object with the id, 0 if none
RECURSIVE FindFrom(_, _, _, _)
FindFrom(o, route, id, k) ==
  IF k > Len(route) THEN 0
  ELSE IF o[route[k]].id = id THEN route[k]
  ELSE FindFrom(o, route, id, k + 1)

\* Object.assign(waypoint, updates)
Assign(waypoint, updates) ==
  [fld \in DOMAIN waypoint |->
     IF fld \in DOMAIN updates THEN updates[fld] ELSE waypoint[fld]]

\* updateWaypoint (lines 289-295): the object is changed in place
updateWaypoint(id, updates) ==
  LET r == FindFrom(objs, Route, id, 1)
  IN /\ loaded
     /\ r # 0
     /\ updateMapVisualization([objs EXCEPT ![r] = Assign(@, updates)], arrays, waypoints)
     /\ UNCHANGED loaded

\* the two splices of moveWaypoint (lines 283-284) on a sequence, 0-based indices
Splice(route, fromIndex, toIndex) ==
  LET item == route[fromIndex + 1]
      rest == [k \in 1 .. Len(route) - 1 |->
                 IF k <= fromIndex THEN route[k] ELSE route[k + 1]]
  IN [k \in 1 .. Len(route) |->
        IF k <= toIndex THEN rest[k]
        ELSE IF k = toIndex + 1 THEN item
        ELSE rest[k - 1]]

\* moveWaypoint (lines 281-287): the live array is reordered in place
moveWaypoint(fromIndex, toIndex) ==
  /\ loaded
  /\ fromIndex \in 0 .. Len(Route) - 1
  /\ ~(toIndex < 0 \/ toIndex >= Len(Route))
  /\ updateMapVisualization(objs,
                            [arrays EXCEPT ![waypoints] = Splice(@, fromIndex, toIndex)],
                            waypoints)
  /\ UNCHANGED loaded

\* removeWaypoint (lines 297-301): state.waypoints becomes a new, filtered array
removeWaypoint(id) ==
  LET filtered == SelectSeq(Route, LAMBDA r : objs[r].id # id)
  IN /\ loaded
     /\ \E k \in 1 .. Len(Route) : objs[Route[k]].id = id
     /\ updateMapVisualization(objs, Append(arrays, filtered), Len(arrays) + 1)
     /\ UNCHANGED loaded

\* the .plan files the user may load: valid plans (schema of lines 17-44)
PlanFiles ==
  { << [id |-> 101, latitude |-> 0, altitude |-> 0],
       [id |-> 102, latitude |-> 1, altitude |-> MaxAlt] >>,
    << [id |-> 201, latitude |-> MaxLat, altitude |-> 0],
       [id |-> 202, latitude |-> 0, altitude |-> MaxAlt],
       [id |-> 203, latitude |-> 0, altitude |-> 0] >> }

\* handleLoadPlan (lines 397-420) from line 411 on, for a plan that validates:
\* state.waypoints becomes a new array of copies of the plan's waypoints
handleLoadPlan(plan) ==
  LET n == Len(objs)
  IN /\ loaded
     /\ updateMapVisualization(objs \o plan,
                               Append(arrays, [k \in 1 .. Len(plan) |-> n + k]),
                               Len(arrays) + 1)
     /\ UNCHANGED loaded

\* ---- completion of a network fetch -----------------------------------------
\* CacheAfterFetch storing an entry whatever the outcome
CacheAfterFetchAlways(c, key, ok) == (key :> DecodeImage(key)) @@ c

\* lines 529-541: the cache after the fetch of key has ended; only a fetch that
\* succeeded and decoded stores its buffer
CacheAfterFetch(c, key, ok) ==
  IF ok THEN (key :> DecodeImage(key)) @@ c ELSE c

\* FetchComplete under single-flight: the one fetch of a key resumes every
\* invocation suspended on that key
FetchCompleteShared(k, ok) ==
  LET key == invs[k].key
      c == CacheAfterFetch(tileCache, key, ok)
      waiting(j) == invs[j].pc = "await" /\ invs[j].key = key
      resumed(f) ==
        Run(AfterLookup(f, objs,
                        IF ok THEN ElevationOf(DecodeImage(key), f.pixel) ELSE Null,
                        TRUE, ~ok),
            objs, arrays, c)
      after == [j \in 1 .. Len(invs) |-> IF waiting(j) THEN resumed(invs[j]) ELSE invs[j]]
      last == after[Len(invs)]
      suspended == SelectSeq(after, LAMBDA g : g.pc = "await")
  IN /\ invs[k].pc = "await"
     /\ ok \/ failures < MaxFail
     /\ failures' = IF ok THEN failures ELSE failures + 1
     /\ tileCache' = c
     /\ invs' = after
     /\ requests' = [j \in 1 .. Len(suspended) |-> Request(suspended[j], suspended[j].key)]
     /\ canvas' = IF waiting(Len(invs)) /\ last.pc = "done"
                  THEN AfterSampling(last, profileToken, canvas)
                  ELSE canvas
     /\ UNCHANGED <<objs, arrays, waypoints, profileToken, loaded, probe>>

\* FetchComplete where an invocation that finds itself superseded when its fetch
\* completes abandons its sampling
FetchCompleteCancelStale(k, ok) ==
  LET f == invs[k]
      c == CacheAfterFetch(tileCache, f.key, ok)
      groundElevation == IF ok THEN ElevationOf(DecodeImage(f.key), f.pixel) ELSE Null
      h == AfterLookup(f, objs, groundElevation, TRUE, ~ok)
      g == IF f.token # profileToken THEN [h EXCEPT !.pc = "done"]
           ELSE Run(h, objs, arrays, c)
  IN /\ f.pc = "await"
     /\ ok \/ failures < MaxFail
     /\ failures' = IF ok THEN failures ELSE failures + 1
     /\ tileCache' = c
     /\ invs' = [invs EXCEPT ![k] = g]
     /\ requests' = Completed(requests, Request(f, f.key)) \o IssuedRequests(g, objs)
     /\ canvas' = IF g.pc = "done" THEN AfterSampling(g, profileToken, canvas) ELSE canvas
     /\ UNCHANGED <<objs, arrays, waypoints, profileToken, loaded, probe>>

\* FetchComplete where the sampler records the elevation it obtained in the
\* segment's start waypoint
FetchCompleteWritingWaypoint(k, ok) ==
  LET f == invs[k]
      c == CacheAfterFetch(tileCache, f.key, ok)
      groundElevation == IF ok THEN ElevationOf(DecodeImage(f.key), f.pixel) ELSE Null
      g == Run(AfterLookup(f, objs, groundElevation, TRUE, ~ok), objs, arrays, c)
  IN /\ f.pc = "await"
     /\ ok \/ failures < MaxFail
     /\ failures' = IF ok THEN failures ELSE failures + 1
     /\ tileCache' = c
     /\ invs' = [invs EXCEPT ![k] = g]
     /\ requests' = Completed(requests, Request(f, f.key)) \o IssuedRequests(g, objs)
     /\ canvas' = IF g.pc = "done" THEN AfterSampling(g, profileToken, canvas) ELSE canvas
     /\ objs' = [objs EXCEPT ![f.start].altitude = IF ok THEN MaxAlt ELSE 0]
     /\ UNCHANGED <<arrays, waypoints, profileToken, loaded, probe>>

\* fetchElevationTile from line 529 on for invocation k, whose fetch succeeds
\* (ok) or fails (network error, non-success status, undecodable image), then
\* getElevationFromTile and the sampler up to its next suspension or return,
\* then lines 450-451 of updateElevationProfile
FetchComplete(k, ok) ==
  LET f == invs[k]
      c == CacheAfterFetch(tileCache, f.key, ok)
      groundElevation == IF ok THEN ElevationOf(DecodeImage(f.key), f.pixel) ELSE Null
  IN /\ f.pc = "await"
     /\ ok \/ failures < MaxFail
     /\ failures' = IF ok THEN failures ELSE failures + 1
     /\ tileCache' = c
     /\ \E g \in {Run(AfterLookup(f, objs, groundElevation, TRUE, ~ok), objs, arrays, c)} :
          /\ invs' = [invs EXCEPT ![k] = g]
          /\ requests' = Completed(requests, Request(f, f.key)) \o IssuedRequests(g, objs)
          /\ canvas' = IF g.pc = "done" THEN AfterSampling(g, profileToken, canvas) ELSE canvas
     /\ UNCHANGED <<objs, arrays, waypoints, profileToken, loaded, probe>>

\* ---- the specification -------------------------------------------------------
EngineInit ==
  /\ objs = <<>>
  /\ arrays = << <<>> >>
  /\ waypoints = 1
  /\ profileToken = 0
  /\ tileCache = <<>>
  /\ canvas = drawProfilePlaceholder("blank", 0)
  /\ invs = <<>>
  /\ loaded = FALSE
  /\ failures = 0
  /\ requests = <<>>

Init == EngineInit /\ probe = Null

AddStep == \E latitude \in Lats, altitude \in Altitudes : addWaypoint(latitude, altitude)

UpdateStep ==
  \E k \in 1 .. Len(Route) :
    \/ \E latitude \in Lats : updateWaypoint(objs[Route[k]].id, [latitude |-> latitude])
    \/ \E altitude \in Altitudes : updateWaypoint(objs[Route[k]].id, [altitude |-> altitude])

MoveStep ==
  \E fromIndex \in 0 .. Len(Route) - 1 :
    \E toIndex \in {fromIndex - 1, fromIndex + 1} : moveWaypoint(fromIndex, toIndex)

RemoveStep == \E k \in 1 .. Len(Route) : removeWaypoint(objs[Route[k]].id)

LoadStep == \E plan \in PlanFiles : handleLoadPlan(plan)

FetchStep == \E k \in 1 .. Len(invs), ok \in BOOLEAN : FetchComplete(k, ok)

Next ==
  \/ MapLoad
  \/ AddStep
  \/ UpdateStep
  \/ MoveStep
  \/ RemoveStep
  \/ LoadStep
  \/ FetchStep

Spec == Init /\ [][Next]_vars

\* The network answers every request: the pending fetch of each invocation
\* eventually completes, with success or failure.
FetchOf(k) == k \in 1 .. Len(invs) /\ \E ok \in BOOLEAN : FetchComplete(k, ok)

FairSpec == Spec /\ \A k \in 1 .. MaxRefresh : WF_vars(FetchOf(k))

engine == <<objs, arrays, waypoints, profileToken, tileCache, canvas, invs, loaded,
            failures, requests>>

\* ---- interpolateCoordinate on its own ------------------------------------------
\* The planned altitude of line 474 at the two ends of a segment (t = 0 at step
\* 0, t = 1 at step = steps) between waypoint altitudes given in tenths of a
\* metre.
Tenths == 0 .. MaxTenths

InitInterpolate ==
  /\ EngineInit
  /\ probe \in [start : Tenths, end : Tenths, t : {0, 1}, result : {Null}]

Interpolate ==
  /\ probe.result = Null
  /\ probe' = [probe EXCEPT !.result =
                 Some(interpolateCoordinateNumber(NumberOfTenths(probe.start),
                                                  NumberOfTenths(probe.end), probe.t))]
  /\ UNCHANGED engine

SpecInterpolate == InitInterpolate /\ [][Interpolate]_vars

\* ---- decodeElevation on its own -------------------------------------------------
\* The channel values the decoder is called with: the ends and the middle of
\* the range of a Uint8ClampedArray element (lines 510-513).
ByteSamples == {0, 1, 127, 254, 255}

InitDecode ==
  /\ EngineInit
  /\ probe \in [r : ByteSamples, g : ByteSamples, b : ByteSamples, results : {<<>>}]

\* one more call of decodeElevation on the same triple
Decode ==
  /\ Len(probe.results) < MaxCalls
  /\ probe' = [probe EXCEPT !.results = Append(@, decodeElevation(probe.r, probe.g, probe.b))]
  /\ UNCHANGED engine

SpecDecode == InitDecode /\ [][Decode]_vars

\* ---- properties ----------------------------------------------------------------
Invs == 1 .. Len(invs)
Suspended(k) == invs[k].pc = "await"
Returned(k) == invs[k].pc = "done"
Stale(k) == invs[k].token # profileToken

\* invocation k was resumed by the step (its fetch completed)
Resumed(k) == k \in Invs /\ Suspended(k) /\ invs'[k] # invs[k]

\* invocation k issued a network request in the step: it was started or resumed
\* by the step and is suspended after it
IssuedNow(k) ==
  /\ k \in 1 .. Len(invs')
  /\ invs'[k].pc = "await"
  /\ (k \in Invs => invs'[k] # invs[k])

\* invocation k went to the network for the key
FetchedKey(k, key) ==
  \E n \in 1 .. Len(invs[k].lookups) :
    invs[k].lookups[n].net /\ invs[k].lookups[n].key = key

\* a network fetch of the key by invocation k succeeded
FetchedKeyOk(k, key) ==
  \E n \in 1 .. Len(invs[k].lookups) :
    /\ invs[k].lookups[n].net /\ ~invs[k].lookups[n].failed
    /\ invs[k].lookups[n].key = key

\* C1: an invocation that is stale when its fetch completes leaves the canvas as
\* it was, whether the step only advances its sampling or ends it.
C1_StaleDrawsNothing ==
  [][\A k \in Invs : (Resumed(k) /\ Stale(k)) => canvas' = canvas]_vars

\* C1 witness: invocation k has returned, and one of its fetches succeeded after
\* a later invocation j had started (j went to the network for the same key, so
\* the key was not cached when j asked); the canvas shows what j's refresh drew.
C1_Witness ==
  \E k \in Invs, j \in Invs :
    /\ invs[k].token < invs[j].token
    /\ Returned(k)
    /\ Len(invs[k].samples) >= 2
    /\ \E n \in 1 .. Len(invs[k].lookups) :
         LET e == invs[k].lookups[n]
         IN /\ e.net /\ ~e.failed
            /\ \/ (Suspended(j) /\ invs[j].key = e.key)
               \/ FetchedKey(j, e.key)
    /\ canvas.token = profileToken

\* C2 (as claimed): when every lookup of the latest refresh went to the network
\* and failed, the refresh ends with the 'fetch failed' placeholder.
C2_AllFailedShowsPlaceholder ==
  \A k \in Invs :
    ( /\ ~Stale(k)
      /\ Returned(k)
      /\ invs[k].lookups # <<>>
      /\ \A n \in 1 .. Len(invs[k].lookups) :
           invs[k].lookups[n].net /\ invs[k].lookups[n].failed )
    => canvas.kind = "failed"

\* the waypoints invocation k's sampler reads through its array reference
WaypointsSeen(k) ==
  [n \in 1 .. Len(arrays[invs[k].waypoints]) |-> objs[arrays[invs[k].waypoints][n]]]

\* C3 (as claimed): while an invocation is suspended on a fetch, no step changes
\* the waypoints its sampler reads (count, order, coordinates, altitudes).
C3_SnapshotAtRefresh ==
  [][\A k \in Invs : Suspended(k) => WaypointsSeen(k)' = WaypointsSeen(k)]_vars

\* the lookups invocation k made in the step
NewLookups(k) ==
  LET old == IF k \in Invs THEN Len(invs[k].lookups) ELSE 0
  IN [n \in 1 .. Len(invs'[k].lookups) - old |-> invs'[k].lookups[old + n]]

\* every tile of the modelled strip, decoded: the cache once every fetch has succeeded
FullCache ==
  [key \in {TileKey(TILE_ZOOM, TileX, y) : y \in 0 .. (NorthLat \div TileSpan)} |->
     DecodeImage(key)]

\* what invocation k's sampler returns on its route when every fetch succeeds
AllSucceed(k) == Run(NewFrame(invs[k].token, invs[k].waypoints), objs, arrays, FullCache)

\* the lookups of invocation k whose sample was pushed, in order
KeptLookups(k) == SelectSeq(invs[k].lookups, LAMBDA e : e.kept)

\* C4: whatever fetches failed, the sampler of the latest refresh returns, for the
\* route, as many samples as when every fetch succeeds, in the same order and
\* with the same distance, position and plannedAltitude; a sample's
\* groundElevation is null when its own lookup failed and is otherwise what the
\* tile decodes to (null for a no-data pixel).
C4_FetchFailuresOnlyNullTheirSample ==
  \A k \in Invs :
    (~Stale(k) /\ Returned(k) /\ Len(Route) >= 2) =>
      LET s == invs[k].samples
          r == AllSucceed(k).samples
          kept == KeptLookups(k)
      IN /\ Len(s) = Len(r)
         /\ Len(kept) = Len(s)
         /\ \A n \in 1 .. Len(s) :
              /\ s[n].distance = r[n].distance
              /\ s[n].lat = r[n].lat
              /\ s[n].plannedAltitude = r[n].plannedAltitude
              /\ s[n].groundElevation =
                   IF kept[n].failed THEN Null ELSE r[n].groundElevation

\* C4 witness: the latest refresh has returned at least 3 samples; the lookup of
\* one failed, and a later sample of it has an elevation.
C4_Witness ==
  \E k \in Invs :
    /\ ~Stale(k) /\ Returned(k)
    /\ Len(invs[k].samples) >= 3
    /\ \E m, n \in 1 .. Len(invs[k].samples) :
         /\ m < n
         /\ KeptLookups(k)[m].failed
         /\ invs[k].samples[m].groundElevation = Null
         /\ invs[k].samples[n].groundElevation # Null

\* C5: a refresh started on a route of fewer than 2 waypoints ends within the
\* step that starts it: the canvas shows the 'insufficient' placeholder, the
\* invocation has returned without a lookup, no network request was issued, and
\* the cache and the other invocations are as they were.
C5_InsufficientRouteIsSynchronous ==
  [][(profileToken' # profileToken /\ Len(Route') < 2) =>
       /\ canvas' = drawProfilePlaceholder("insufficient", profileToken')
       /\ Len(invs') = Len(invs) + 1
       /\ invs'[Len(invs')].pc = "done"
       /\ invs'[Len(invs')].lookups = <<>>
       /\ invs'[Len(invs')].samples = <<>>
       /\ \A k \in Invs : invs'[k] = invs[k]
       /\ tileCache' = tileCache]_vars

\* C5 witness: the route has one waypoint and the refresh its addition or the
\* removal of another started has left the 'insufficient' placeholder.
C5_Witness ==
  /\ Len(Route) = 1
  /\ canvas.kind = "insufficient"
  /\ canvas.token = profileToken
  /\ invs[Len(invs)].token = profileToken
  /\ invs[Len(invs)].pc = "done"

\* C6: the tokens of the invocations are pairwise distinct, the only invocation
\* whose token is the live counter is the one started last, and a step either
\* leaves the counter and starts no invocation or adds exactly 1 to it and
\* starts one invocation, which holds the new value.
C6_TokenCounter ==
  /\ [](/\ \A j, k \in Invs : j # k => invs[j].token # invs[k].token
        /\ \A k \in Invs : invs[k].token = profileToken => k = Len(invs)
        /\ invs # <<>> => invs[Len(invs)].token = profileToken)
  /\ [][\/ profileToken' = profileToken /\ Len(invs') = Len(invs)
        \/ /\ profileToken' = profileToken + 1
           /\ Len(invs') = Len(invs) + 1
           /\ invs'[Len(invs')].token = profileToken']_vars

\* C6 witness: two invocations are suspended at once, an older one and the one
\* holding the live token.
C6_Witness ==
  \E j, k \in Invs :
    /\ j < k
    /\ Suspended(j) /\ Suspended(k)
    /\ invs[k].token = profileToken
    /\ invs[j].token < profileToken

\* C7: a network request is issued only for a key that is not in the cache: an
\* invocation that a step leaves suspended on a fetch asked for a key the cache
\* does not hold after that step, and every lookup a step answered without the
\* network was for a key the cache holds.
C7_CacheHitIssuesNoRequest ==
  [][\A k \in 1 .. Len(invs') :
       /\ IssuedNow(k) => invs'[k].key \notin DOMAIN tileCache'
       /\ \A n \in 1 .. Len(NewLookups(k)) :
            NewLookups(k)[n].key \in DOMAIN tileCache' =>
              ((Resumed(k) /\ n = 1) \/ ~NewLookups(k)[n].net)]_vars

\* C7 witness: invocation k got a key from the cache that it never fetched
\* itself; another invocation's fetch of that key had succeeded.
C7_Witness ==
  \E j, k \in Invs :
    /\ j # k
    /\ \E n \in 1 .. Len(invs[k].lookups) :
         LET e == invs[k].lookups[n]
         IN /\ ~e.net
            /\ ~FetchedKey(k, e.key)
            /\ FetchedKeyOk(j, e.key)

\* C8: a step keeps every cache entry; the cache changes only in a step that
\* completes a fetch successfully, and then by the entry of that fetch's key; a
\* step that completes a fetch with a failure leaves the cache as it was; and
\* every lookup of a key the cache does not hold goes to the network.
C8_CacheAppendOnly ==
  [][/\ \A key \in DOMAIN tileCache :
          key \in DOMAIN tileCache' /\ tileCache'[key] = tileCache[key]
     /\ tileCache' # tileCache =>
          \E k \in Invs :
            /\ Resumed(k)
            /\ DOMAIN tileCache' = DOMAIN tileCache \cup {invs[k].key}
            /\ NewLookups(k)[1].net /\ ~NewLookups(k)[1].failed
     /\ \A k \in Invs :
          (Resumed(k) /\ NewLookups(k)[1].failed) => tileCache' = tileCache
     /\ \A k \in 1 .. Len(invs') : \A n \in 1 .. Len(NewLookups(k)) :
          ~NewLookups(k)[n].net => NewLookups(k)[n].key \in DOMAIN tileCache']_vars

\* C8 witness: a fetch of a key failed, the cache does not hold the key, and the
\* same invocation went to the network for that key again.
C8_Witness ==
  \E k \in Invs : \E m \in 1 .. Len(invs[k].lookups) :
    LET e == invs[k].lookups[m]
    IN /\ e.net /\ e.failed
       /\ e.key \notin DOMAIN tileCache
       /\ \/ Suspended(k) /\ invs[k].key = e.key
          \/ \E n \in 1 .. Len(invs[k].lookups) :
               n > m /\ invs[k].lookups[n].net /\ invs[k].lookups[n].key = e.key

\* C9: each suspended invocation waits for a network fetch of its own: when the
\* fetch of one of two invocations suspended on the same key completes, the
\* other stays suspended on its fetch.
C9_NoSingleFlight ==
  [][\A j, k \in Invs :
       ( /\ j # k
         /\ Suspended(j) /\ Suspended(k)
         /\ invs[j].key = invs[k].key
         /\ Resumed(k) )
       => invs'[j] = invs[j]]_vars

\* C9 witness: two invocations are suspended on network fetches of the same key.
C9_Witness ==
  \E j, k \in Invs :
    /\ j # k
    /\ Suspended(j) /\ Suspended(k)
    /\ invs[j].key = invs[k].key
    /\ invs[j].key \notin DOMAIN tileCache

\* the sum of the distances of the consecutive waypoint pairs of a route
RECURSIVE RouteLength(_, _)
RouteLength(route, n) ==
  IF n < 2 THEN 0
  ELSE RouteLength(route, n - 1)
       + haversineDistance(objs[route[n - 1]].latitude, objs[route[n]].latitude)

\* C10: the distances of the samples a sampler has returned start at 0, never
\* decrease, and end at the sum of the segment distances it accumulated; for the
\* latest refresh of a route of at least 2 waypoints that sum is the sum of the
\* distances of the route's consecutive waypoint pairs.
C10_DistancesNonDecreasing ==
  \A k \in Invs :
    LET s == invs[k].samples
    IN /\ (Returned(k) /\ s # <<>>) =>
            /\ FEq(s[1].distance, FInt(0))
            /\ \A n \in 1 .. Len(s) - 1 : FLeq(s[n].distance, s[n + 1].distance)
            /\ FEq(s[Len(s)].distance, FInt(invs[k].cumulativeDistance))
       /\ (Returned(k) /\ ~Stale(k) /\ Len(Route) >= 2) =>
            /\ s # <<>>
            /\ FEq(s[Len(s)].distance, FInt(RouteLength(Route, Len(Route))))

\* C10 witness: the latest refresh has returned the samples of a route of 3
\* waypoints that has a segment of length 0 and a segment of positive length.
C10_Witness ==
  \E k \in Invs :
    /\ Returned(k) /\ ~Stale(k)
    /\ Len(Route) = 3
    /\ \E n \in 1 .. 2 : objs[Route[n]].latitude = objs[Route[n + 1]].latitude
    /\ RouteLength(Route, 3) > 0
    /\ \E n \in 1 .. Len(invs[k].samples) - 1 :
         FEq(invs[k].samples[n].distance, invs[k].samples[n + 1].distance)

\* line 467 for a segment of the given length
StepsOf(segmentDistance) == Max(1, CeilDiv(segmentDistance, SAMPLE_SPACING_METERS))

\* steps_i of segment i (counted from 0) of a route
SegmentSteps(route, i) ==
  StepsOf(haversineDistance(objs[route[i + 1]].latitude, objs[route[i + 2]].latitude))

\* the sum of steps_i over the first n segments of a route
RECURSIVE SumSteps(_, _)
SumSteps(route, n) ==
  IF n = 0 THEN 0 ELSE SumSteps(route, n - 1) + SegmentSteps(route, n - 1)

\* the (segment, step) pairs of the samples the first n segments of a route
\* contribute: steps 0 .. steps_0 of segment 0, steps 1 .. steps_i of a later one
RECURSIVE SamplePlan(_, _)
SamplePlan(route, n) ==
  IF n = 0 THEN <<>>
  ELSE LET i == n - 1
           steps == SegmentSteps(route, i)
       IN SamplePlan(route, i) \o
          [m \in 1 .. (IF i = 0 THEN steps + 1 ELSE steps) |->
             [i |-> i, step |-> IF i = 0 THEN m - 1 ELSE m]]

\* C11: a sampler that has returned made one lookup per step and dropped the
\* sample of exactly one step per segment after the first; the samples of the
\* latest refresh of a route of at least 2 waypoints are 1 + the sum of steps_i
\* in number, steps_0 + 1 of them from segment 0 and steps_i from each later
\* segment, and lie in route order at the points of their (segment, step).
C11_OneSamplePerBoundary ==
  \A k \in Invs :
    LET s == invs[k].samples
        segments == Len(Route) - 1
        plan == SamplePlan(Route, segments)
    IN /\ (Returned(k) /\ invs[k].i >= 1) =>
            /\ Len(s) = Len(KeptLookups(k))
            /\ Len(s) = Len(invs[k].lookups) - (invs[k].i - 1)
       /\ (Returned(k) /\ ~Stale(k) /\ Len(Route) >= 2) =>
            /\ invs[k].i = segments
            /\ Len(s) = 1 + SumSteps(Route, segments)
            /\ Len(s) = Len(plan)
            /\ \A n \in 1 .. Len(s) :
                 FEq(s[n].lat,
                     interpolateCoordinate(objs[Route[plan[n].i + 1]].latitude,
                                           objs[Route[plan[n].i + 2]].latitude,
                                           plan[n].step,
                                           SegmentSteps(Route, plan[n].i)))

\* C11 witness: the latest refresh has returned the samples of a route of 3
\* waypoints whose second segment has more than one step.
C11_Witness ==
  \E k \in Invs :
    /\ Returned(k) /\ ~Stale(k)
    /\ Len(Route) = 3
    /\ SegmentSteps(Route, 1) >= 2
    /\ Len(invs[k].samples) = 1 + SegmentSteps(Route, 0) + SegmentSteps(Route, 1)

\* C12 (as claimed): the plannedAltitude of the first sample of a segment
\* (t = 0) is the start waypoint's altitude, that of its last sample (t = 1) is
\* the end waypoint's altitude, and neither leaves the range between the two
\* altitudes.
C12_PlannedAltitudeEndpoints ==
  probe.result # Null =>
    LET start == NumberOfTenths(probe.start)
        end == NumberOfTenths(probe.end)
        plannedAltitude == probe.result[1]
    IN /\ probe.t = 0 => plannedAltitude = start
       /\ probe.t = 1 => plannedAltitude = end
       /\ \/ NumberLeq(start, plannedAltitude) /\ NumberLeq(plannedAltitude, end)
          \/ NumberLeq(end, plannedAltitude) /\ NumberLeq(plannedAltitude, start)

\* C13: every call of decodeElevation on a triple returns null when the triple is
\* 0,0,0 or 255,255,255 (value 0 or 16777215) and otherwise the elevation
\* value/10 - 10000 with value = r*65536 + g*256 + b, and repeated calls on the
\* same triple return the same result.
C13_DecodeElevation ==
  LET value == probe.r * 65536 + probe.g * 256 + probe.b
      sentinel == \/ probe.r = 0 /\ probe.g = 0 /\ probe.b = 0
                  \/ probe.r = 255 /\ probe.g = 255 /\ probe.b = 255
  IN /\ sentinel <=> value \in {0, 16777215}
     /\ \A n \in 1 .. Len(probe.results) :
          LET result == probe.results[n]
          IN /\ sentinel <=> result = Null
             /\ ~sentinel => result[1].n * 10 = (value - 10000 * 10) * result[1].d
             /\ result = probe.results[1]

\* C13 witness: the decoder has been called twice on 255,255,255 and returned
\* null both times.
C13_Witness ==
  /\ probe.r = 255 /\ probe.g = 255 /\ probe.b = 255
  /\ Len(probe.results) = 2
  /\ probe.results[1] = Null /\ probe.results[2] = Null

\* the positions of the samples of a sequence that have a ground elevation
ValidPositions(samples) == {n \in 1 .. Len(samples) : samples[n].groundElevation # Null}

\* C14: once the latest refresh has returned samples of which at least one has a
\* ground elevation, the canvas shows the chart of exactly those samples, not
\* the 'fetch failed' placeholder, whatever lookups failed; the ground polygon
\* is drawn exactly when at least 2 samples have an elevation, through those
\* samples only, and the planned-altitude line has one point per sample.
C14_PartialProfileIsDrawn ==
  \A k \in Invs :
    LET s == invs[k].samples
    IN (~Stale(k) /\ Returned(k) /\ ValidPositions(s) # {}) =>
         /\ canvas.kind = "chart"
         /\ canvas.token = invs[k].token
         /\ canvas.samples = s
         /\ canvas.polygon <=> Cardinality(ValidPositions(s)) >= 2
         /\ Len(canvas.groundLine) =
              IF canvas.polygon THEN Cardinality(ValidPositions(s)) ELSE 0
         /\ \A n \in 1 .. Len(canvas.groundLine) : canvas.groundLine[n].value # Null
         /\ Len(canvas.plannedLine) = Len(s)
         /\ \A n \in 1 .. Len(s) :
              /\ canvas.plannedLine[n].distance = s[n].distance
              /\ canvas.plannedLine[n].value = s[n].plannedAltitude

\* C14 witness: the latest refresh has returned samples of which exactly one has
\* an elevation and another is null because its lookup failed; the canvas shows
\* the chart without a ground polygon.
C14_Witness ==
  \E k \in Invs :
    /\ ~Stale(k) /\ Returned(k)
    /\ Cardinality(ValidPositions(invs[k].samples)) = 1
    /\ \E n \in 1 .. Len(invs[k].samples) :
         KeptLookups(k)[n].failed /\ invs[k].samples[n].groundElevation = Null
    /\ canvas.kind = "chart" /\ ~canvas.polygon
    /\ Len(canvas.plannedLine) = Len(invs[k].samples)

\* the route as the editing handlers see it: the array and every waypoint field
RouteValue == [n \in 1 .. Len(Route) |-> objs[Route[n]]]

\* C15: a step in which only the engine runs (the refresh of the map's 'load'
\* event, or the completion of a fetch with the sampling and drawing that
\* follow) leaves state.waypoints, every array and every waypoint object as
\* they were; a step that changes the route is an editing operation, which
\* starts a refresh.
C15_EngineNeverMutatesRoute ==
  [][/\ (loaded' # loaded \/ profileToken' = profileToken) =>
          /\ waypoints' = waypoints
          /\ arrays' = arrays
          /\ objs' = objs
     /\ RouteValue' # RouteValue => (loaded /\ profileToken' = profileToken + 1)]_vars

\* C15 witness: an invocation has gone to the network twice and returned, and the
\* canvas shows the chart of the latest refresh of a route of 3 waypoints.
C15_Witness ==
  \E k \in Invs :
    /\ Returned(k)
    /\ \E m, n \in 1 .. Len(invs[k].lookups) :
         m < n /\ invs[k].lookups[m].net /\ invs[k].lookups[n].net
    /\ Len(Route) = 3
    /\ canvas.kind = "chart" /\ canvas.token = profileToken

\* the canvas shows the chart of the current route: one sample per planned
\* (segment, step), at the position and planned altitude the current waypoints
\* give it
ChartOfCurrentRoute ==
  LET plan == SamplePlan(Route, Len(Route) - 1)
  IN /\ Len(Route) >= 2
     /\ Len(canvas.samples) = Len(plan)
     /\ \A n \in 1 .. Len(plan) :
          LET start == objs[Route[plan[n].i + 1]]
              end == objs[Route[plan[n].i + 2]]
              steps == SegmentSteps(Route, plan[n].i)
          IN /\ FEq(canvas.samples[n].lat,
                    interpolateCoordinate(start.latitude, end.latitude, plan[n].step, steps))
             /\ FEq(canvas.samples[n].plannedAltitude,
                    interpolateCoordinate(start.altitude, end.altitude, plan[n].step, steps))

\* C16: a chart on the canvas was drawn by the refresh started last, from the
\* samples it returned, and is the chart of the current route; a step that
\* changes the route starts a refresh and leaves on the canvas what that
\* refresh drew (a placeholder, or its chart if it has already returned); and
\* whenever the canvas changes, it shows what the latest refresh drew.
C16_ChartIsOfLatestRoute ==
  /\ [](canvas.kind = "chart" =>
          /\ canvas.token = profileToken
          /\ invs[Len(invs)].token = profileToken
          /\ Returned(Len(invs))
          /\ canvas.samples = invs[Len(invs)].samples
          /\ ChartOfCurrentRoute)
  /\ [][/\ RouteValue' # RouteValue =>
             /\ profileToken' = profileToken + 1
             /\ canvas'.token = profileToken'
             /\ \/ canvas'.kind \in {"computing", "insufficient"}
                \/ canvas'.kind = "chart" /\ invs'[Len(invs')].pc = "done"
        /\ canvas' # canvas => canvas'.token = profileToken']_vars

\* C16 witness: the route was changed while a refresh was sampling; that refresh
\* has returned samples of the older route, and the canvas shows the chart of
\* the latest refresh, with other samples.
C16_Witness ==
  \E j \in Invs :
    /\ Stale(j) /\ Returned(j)
    /\ Len(invs[j].samples) >= 2
    /\ \E n \in 1 .. Len(invs[j].lookups) : invs[j].lookups[n].net
    /\ canvas.kind = "chart"
    /\ canvas.token = profileToken
    /\ canvas.samples # invs[j].samples

\* the sampler of a frame has gone through every segment of the array it reads
RouteExhausted(f, a) == f.i = Len(a[f.waypoints]) - 1

\* C17: when the fetch of a superseded invocation completes, the invocation goes
\* on with its sampling: it makes at least the lookup the fetch answers, and
\* after the step it is either suspended on the fetch of a key the cache does
\* not hold or has returned, and has returned only if it has gone through
\* every segment of its route; if the fetch succeeded the cache holds the tile
\* from then on, and every lookup of a held tile made in the step is answered
\* without the network; the canvas is as it was.
C17_SupersededRefreshRunsOn ==
  [][\A k \in Invs :
       (Resumed(k) /\ Stale(k)) =>
         /\ Len(NewLookups(k)) >= 1
         /\ NewLookups(k)[1].net
         /\ ~NewLookups(k)[1].failed => invs[k].key \in DOMAIN tileCache'
         /\ \A n \in 2 .. Len(NewLookups(k)) :
              ~NewLookups(k)[n].net /\ NewLookups(k)[n].key \in DOMAIN tileCache'
         /\ \/ invs'[k].pc = "await" /\ invs'[k].key \notin DOMAIN tileCache'
            \/ invs'[k].pc = "done" /\ RouteExhausted(invs'[k], arrays')
         /\ canvas' = canvas]_vars

\* C17 witness: invocation j started while invocation k was waiting for tile
\* K0 (both went to the network for it); k, superseded, then fetched K0 and the
\* next tile K1 successfully and returned; j got K1 from the cache without ever
\* fetching it, and no other invocation fetched K1.
C17_Witness ==
  \E k, j \in Invs :
    /\ k < j
    /\ Stale(k) /\ Returned(k)
    /\ invs[j].lookups # <<>>
    /\ invs[j].lookups[1].net
    /\ \E m, n \in 1 .. Len(invs[k].lookups) :
         LET e0 == invs[k].lookups[m]
             e1 == invs[k].lookups[n]
         IN /\ m < n
            /\ e0.net /\ ~e0.failed /\ e0.key = invs[j].lookups[1].key
            /\ e1.net /\ ~e1.failed /\ e1.key # e0.key
            /\ ~FetchedKey(j, e1.key)
            /\ \E h \in 1 .. Len(invs[j].lookups) :
                 ~invs[j].lookups[h].net /\ invs[j].lookups[h].key = e1.key
            /\ \A i \in Invs \ {k} : ~FetchedKeyOk(i, e1.key)

\* every invocation has returned and the canvas shows the final content of the
\* latest refresh: the chart of the current route, or the 'insufficient'
\* placeholder for a route of fewer than 2 waypoints
Settled ==
  /\ \A k \in Invs : Returned(k)
  /\ canvas.token = profileToken
  /\ canvas.kind # "computing"
  /\ Len(Route) >= 2 => (canvas.kind = "chart" /\ ChartOfCurrentRoute)
  /\ Len(Route) < 2 => canvas.kind = "insufficient"

\* C18: when every pending fetch eventually completes, every invocation that
\* was started eventually returns, and once the map has loaded and the edits
\* have stopped the canvas shows, from some point on for ever, the chart of the
\* route (at least 2 waypoints) or the 'insufficient' placeholder (fewer), and
\* not the 'computing' placeholder.
C18_RefreshesTerminateAndSettle ==
  /\ \A k \in 1 .. MaxRefresh :
       (k \in Invs) ~> (k \in Invs /\ Returned(k))
  /\ <>[](loaded => Settled)

\* C18 witness: after the last edit the bound allows, every invocation has
\* returned, one of them superseded after going to the network, and the canvas
\* shows the chart of the route.
C18_Witness ==
  /\ loaded
  /\ profileToken = MaxRefresh
  /\ Settled
  /\ canvas.kind = "chart"
  /\ \E k \in Invs :
       Stale(k) /\ \E n \in 1 .. Len(invs[k].lookups) : invs[k].lookups[n].net

\* the requests in flight that invocation k issued
RequestsOf(k) == {n \in 1 .. Len(requests) : requests[n].owner = invs[k].token}

\* C19: every invocation has at most one request in flight, and has one, for the
\* key it waits for, exactly while it is suspended in a lookup; the requests in
\* flight are no more than the invocations that have not returned; two
\* requests in flight for one key belong to different invocations; and an
\* invocation makes lookups only in the step that starts it or that completes
\* its request in flight.
C19_LookupsAreSequential ==
  /\ [](/\ \A k \in Invs :
             /\ Cardinality(RequestsOf(k)) <= 1
             /\ Suspended(k) <=> RequestsOf(k) # {}
             /\ \A n \in RequestsOf(k) : requests[n].key = invs[k].key
        /\ Len(requests) <= Cardinality({k \in Invs : ~Returned(k)})
        /\ \A m, n \in 1 .. Len(requests) :
             (m # n /\ requests[m].key = requests[n].key) =>
               requests[m].owner # requests[n].owner)
  /\ [][\A k \in Invs :
          invs'[k].lookups # invs[k].lookups =>
            /\ RequestsOf(k) # {}
            /\ \A n \in RequestsOf(k) :
                 Len(SelectSeq(requests', LAMBDA r : r = requests[n]))
                   < Len(SelectSeq(requests, LAMBDA r : r = requests[n]))
               \/ (invs'[k].pc = "await" /\ invs'[k].key = requests[n].key)]_vars

\* C19 witness: two requests for the same key are in flight, issued by two
\* invocations, and no other invocation is unfinished.
C19_Witness ==
  /\ Len(requests) = 2
  /\ requests[1].key = requests[2].key
  /\ requests[1].owner # requests[2].owner
  /\ Cardinality({k \in Invs : ~Returned(k)}) = 2

\* C20: for the samples of every chart drawn, the scales drawElevationProfile
\* computes from them (lines 573-582) are such that the horizontal divisor
\* totalDistance is not zero; minElevation is the least of 0 and the ground
\* elevations that are not null; maxElevation is the greatest of the ground
\* elevations, the planned altitudes and minElevation + 10; the span
\* maxElevation - minElevation is at least 10; and the vertical divisor is that
\* span, so it is not zero either.
C20_ScalesNeverDivideByZero ==
  canvas.kind = "chart" =>
    LET s == canvas.samples
        totalDistance == TotalDistance(s)
        lo == MinElevation(s)
        hi == MaxElevation(s)
        yDivisor == YDivisor(s)
        ground == {s[n].groundElevation[1] : n \in ValidPositions(s)}
        planned == {s[n].plannedAltitude : n \in 1 .. Len(s)}
        floor == FPlus(lo, FInt(10))
    IN /\ totalDistance.n # 0
       /\ totalDistance.d # 0
       /\ s[Len(s)].distance.n # 0 => totalDistance = s[Len(s)].distance
       /\ \A v \in ground \cup {FInt(0)} : FLeq(lo, v)
       /\ \E v \in ground \cup {FInt(0)} : FEq(lo, v)
       /\ \A v \in ground \cup planned \cup {floor} : FLeq(v, hi)
       /\ \E v \in ground \cup planned \cup {floor} : FEq(hi, v)
       /\ FLeq(FInt(10), FMinus(hi, lo))
       /\ FEq(yDivisor, FMinus(hi, lo))
       /\ yDivisor.n # 0 /\ yDivisor.d # 0

\* C20 witness: the chart of a route of total distance 0 whose ground elevations
\* are all null and whose planned altitudes are all 0 has been drawn; its span
\* is 10.
C20_Witness ==
  /\ canvas.kind = "chart"
  /\ Len(canvas.samples) >= 2
  /\ canvas.samples[Len(canvas.samples)].distance.n = 0
  /\ ValidPositions(canvas.samples) = {}
  /\ FEq(FMinus(MaxElevation(canvas.samples), MinElevation(canvas.samples)), FInt(10))

====
